---- MODULE Spec2Model ----
(***************************************************************************)
(* A model of streamlit_app.py: one Streamlit session of the "AI Prompt    *)
(* Engineer" page.  Streamlit executes the whole script once per user      *)
(* interaction, so every user action below is one run of the script:       *)
(* credential resolution (lines 9-14), the widgets (99-106) and the button *)
(* handler (108-120), which calls refine_prompt_core (37-96).  The only    *)
(* place where a run waits for the outside world is the blocking           *)
(* httpx.post of line 78, so a run that reaches it is split there: Press   *)
(* runs the script up to the POST, Respond runs it from the POST's outcome *)
(* to the end of the script.                                               *)
(*                                                                         *)
(* Text is a sequence of characters; the fixed texts of the program are    *)
(* single tokens of such sequences.  A Python dict is a function from its  *)
(* keys, a Python list a sequence.  The session's widget interactions are  *)
(* serialised by the framework: none is handled while a run is blocked in  *)
(* the POST.  st.secrets is taken to behave as the mapping the script      *)
(* treats it as: falsy exactly when it has no entries.                     *)
(***************************************************************************)
EXTENDS Integers, Sequences, FiniteSets, TLC

\* ------------------------------------------------------------- bounds
MaxLen == 3          \* longest message content / error body the server sends
MaxInput == 2        \* longest text the user types
MaxPresses == 2      \* trigger presses in one session

\* ------------------------------------------------------------- text
Whitespace == {" ", "\n", "\t"}
Chars == {" ", "a"}
InputChars == {" ", "a", "</vague_prompt>"}

StrsOver(alphabet, n) == UNION {[1..k -> alphabet] : k \in 0..n}

Contents == StrsOver(Chars, MaxLen)
UserInputs == StrsOver(InputChars, MaxInput)

\* s occurs in t as a contiguous run of characters
IsSubSeq(s, t) ==
    \E i \in 0..(Len(t) - Len(s)) : SubSeq(t, i + 1, i + Len(s)) = s

RECURSIVE lstrip(_)
lstrip(s) == IF s # <<>> /\ Head(s) \in Whitespace THEN lstrip(Tail(s)) ELSE s

RECURSIVE rstrip(_)
rstrip(s) ==
    IF s # <<>> /\ s[Len(s)] \in Whitespace
    THEN rstrip(SubSeq(s, 1, Len(s) - 1))
    ELSE s

\* a strip that forgets the trailing end
strip_LeftOnly(s) == lstrip(s)

\* str.strip() of line 87
strip(s) == rstrip(lstrip(s))

\* ------------------------------------------------------------- Python values
PyNone == [t |-> "None", v |-> <<>>]
PyStr(s) == [t |-> "str", v |-> s]
Raised(e) == [t |-> "raise", v |-> <<e>>]
Unbound == [t |-> "unbound", v |-> <<>>]
NoCall == [t |-> "nocall", v |-> <<>>]

\* truth value of an Optional[str]: None and "" are falsy
Truthy(x) == x.t = "str" /\ x.v # <<>>

EmptyDict == [k \in {} |-> PyNone]

\* dict.get(k, default)
Get(d, k, default) == IF k \in DOMAIN d THEN d[k] ELSE default

\* ------------------------------------------------------------- configuration
KEY == "DEEPSEEK_API_KEY"

SecretStores ==
    { EmptyDict,
      [k \in {"OTHER"} |-> <<"x">>],
      [k \in {KEY} |-> <<"k">>] }

Environs == { EmptyDict, [k \in {KEY} |-> <<>>] }

DotenvFiles == { EmptyDict, [k \in {KEY} |-> <<"k">>] }

\* load_dotenv(): variables of the .env file that the environment lacks
load_dotenv(env, file) ==
    [k \in DOMAIN env \cup DOMAIN file |->
        IF k \in DOMAIN env THEN env[k] ELSE file[k]]

\* os.environ.get(k)
environ_get(env, k) == IF k \in DOMAIN env THEN PyStr(env[k]) ELSE PyNone

\* lines 9-14: the value bound to DEEPSEEK_API_KEY, or the KeyError of line 14
ResolveKey(sec, env, file) ==
    IF DOMAIN sec = {}
    THEN LET e == load_dotenv(env, file)
         IN  [raised |-> FALSE, key |-> environ_get(e, KEY), environ |-> e]
    ELSE IF KEY \in DOMAIN sec
         THEN [raised |-> FALSE, key |-> PyStr(sec[KEY]), environ |-> env]
         ELSE [raised |-> TRUE, key |-> Unbound, environ |-> env]

\* ------------------------------------------------------------- prompt composition
DEEPSEEK_API_URL == <<"https://api.deepseek.com/chat/completions">>
DEEPSEEK_MODEL == <<"deepseek-chat">>

\* lines 25-34: the text between the triple quotes, one token per line
KNOWLEDGE_BASE ==
    << "\n",
       "Effective Prompt Engineering: The 4C's Framework", "\n",
       "To transform a vague prompt into a well-defined one, ...", "\n",
       "Context: ...", "\n",
       "Constraints: ...", "\n",
       "Content Goal: ...", "\n",
       "Check: ...", "\n",
       "Implementation: ...", "\n",
       "This framework transforms generic requests ...", "\n" >>

\* a line break of the template followed by the template's indentation
NL == "\n    "

\* lines 42-52: the template up to the first placeholder.  Instructions 1
\* and 2 name the two opening tags in their own text.
TemplateHead ==
    << NL, "You are a world-class prompt engineer. ...", NL,
       "**Instructions:**", NL,
       "1.  Read and apply the \"4C's Framework\" provided in the ",
       "<knowledge_base>", " section.", NL,
       "2.  Based on the user's ", "<vague_prompt>", ", you must *invent* ...", NL,
       "3.  Combine these invented details ...", NL,
       "4.  The final output must be only the complete, refined prompt, ...", "\n",
       NL, "<knowledge_base>", NL >>

\* lines 54-56: between the two placeholders
TemplateMiddle ==
    << NL, "</knowledge_base>", "\n", NL, "<vague_prompt>", NL >>

\* lines 58-59: after the second placeholder
TemplateTail == << NL, "</vague_prompt>", NL >>

\* a composition that trims the user's text before interpolating it
Compose_Trimmed(user_prompt) ==
    TemplateHead \o KNOWLEDGE_BASE \o TemplateMiddle \o strip(user_prompt) \o TemplateTail

\* lines 42-59: the f-string full_prompt_for_deepseek
Compose(user_prompt) ==
    TemplateHead \o KNOWLEDGE_BASE \o TemplateMiddle \o user_prompt \o TemplateTail

\* lines 61-83: the request handed to httpx.post
Request(user_prompt, key) ==
    [ url     |-> DEEPSEEK_API_URL,
      json    |-> [ model       |-> DEEPSEEK_MODEL,
                    messages    |-> << [role |-> "user", content |-> Compose(user_prompt)] >>,
                    max_tokens  |-> 2048,
                    temperature |-> "0.7" ],
      headers |-> [ Authorization |-> <<"Bearer ">> \o key.v,
                    ContentType   |-> "application/json" ],
      timeout |-> 60 ]

\* ------------------------------------------------------------- what the server may answer
\* message objects, with and without "content" (a string, or JSON null)
Messages ==
    { [k \in {"role"} |-> "assistant"] }
    \cup { [role |-> "assistant", content |-> PyStr(c)] : c \in Contents }
    \cup { [role |-> "assistant", content |-> PyNone] }

\* choice objects, with and without "message"
ChoiceObjects ==
    { [k \in {"index"} |-> 0] }
    \cup { [index |-> 0, message |-> m] : m \in Messages }

\* parsed JSON bodies, with and without "choices"
Bodies ==
    { [k \in {"id"} |-> "chatcmpl-1"] }
    \cup { [id |-> "chatcmpl-1", choices |-> <<>>] }
    \cup { [id |-> "chatcmpl-1", choices |-> <<c>>] : c \in ChoiceObjects }

Statuses == {200, 201, 302, 429, 500}

\* Response.is_success
is_success(status) == 200 <= status /\ status <= 299

\* the subclasses of httpx.RequestError that httpx.post raises, with str(e)
RequestErrors ==
    { [type |-> "ConnectError",   str |-> <<"[Errno -2] Name or service not known">>],
      [type |-> "ConnectError",   str |-> <<"[Errno 111] Connection refused">>],
      [type |-> "ReadTimeout",    str |-> <<"The read operation timed out">>] }

NoError == [type |-> "none", str |-> <<>>]
NoBody == [k \in {"id"} |-> "chatcmpl-1"]

\* the outcomes of httpx.post: a response (status, body text; for a 2xx
\* response the body as parsed by response.json(), or isJson = FALSE when it
\* does not parse), or a raised RequestError
Outcomes ==
    { [exc |-> NoError, status |-> st, text |-> <<>>, isJson |-> TRUE, body |-> b] :
        st \in {s \in Statuses : is_success(s)}, b \in Bodies }
    \cup { [exc |-> NoError, status |-> st, text |-> <<>>, isJson |-> FALSE, body |-> NoBody] :
        st \in {s \in Statuses : is_success(s)} }
    \cup { [exc |-> NoError, status |-> st, text |-> t, isJson |-> FALSE, body |-> NoBody] :
        st \in {s \in Statuses : ~is_success(s)}, t \in Contents }
    \cup { [exc |-> e, status |-> 0, text |-> <<>>, isJson |-> FALSE, body |-> NoBody] :
        e \in RequestErrors }

\* ------------------------------------------------------------- refine_prompt_core
ConfigErrorText == <<"DeepSeek API key not found. Please add it to your Streamlit secrets.">>
ApiErrorPrefix == <<"DeepSeek API error: ">>
RequestErrorPrefix == <<"An error occurred while calling the DeepSeek API: ">>
NoResultText == <<"Error: Could not retrieve a refined prompt. Please check your API key and try again.">>
WarningText == <<"Please enter a prompt to engineer.">>
SuccessText == <<"Prompt Refined Successfully!">>
SubheaderText == <<"Final Engineered Prompt:">>

Element(kind, text) == [kind |-> kind, text |-> text]

\* line 87: api_response.get("choices", [{}])[0].get("message", {}).get("content", "").strip()
Extract(api_response) ==
    LET choices == Get(api_response, "choices", <<EmptyDict>>)
    IN  IF Len(choices) = 0
        THEN Raised("IndexError")
        ELSE LET message == Get(choices[1], "message", EmptyDict)
                 content == Get(message, "content", PyStr(<<>>))
             IN  IF content.t = "str"
                 THEN PyStr(strip(content.v))
                 ELSE Raised("AttributeError")

\* lines 84-96 without the raise_for_status() of line 84
AfterPost_NoStatusCheck(outcome) ==
    IF outcome.exc # NoError
    THEN [ret |-> PyNone,
          shown |-> <<Element("error", RequestErrorPrefix \o outcome.exc.str)>>]
    ELSE IF ~outcome.isJson
    THEN [ret |-> Raised("JSONDecodeError"), shown |-> <<>>]
    ELSE [ret |-> Extract(outcome.body), shown |-> <<>>]

\* lines 84-96 with the {e} of line 95 left out of the message
AfterPost_NoDescription(outcome) ==
    IF outcome.exc # NoError
    THEN [ret |-> PyNone, shown |-> <<Element("error", RequestErrorPrefix)>>]
    ELSE IF ~is_success(outcome.status)
    THEN [ret |-> PyNone,
          shown |-> <<Element("error", ApiErrorPrefix \o outcome.text)>>]
    ELSE IF ~outcome.isJson
    THEN [ret |-> Raised("JSONDecodeError"), shown |-> <<>>]
    ELSE [ret |-> Extract(outcome.body), shown |-> <<>>]

\* lines 84-96: from the outcome of httpx.post to the return of
\* refine_prompt_core: the value returned (or the exception that leaves the
\* function) and what st.error displayed on the way
AfterPost(outcome) ==
    IF outcome.exc # NoError
    THEN [ret |-> PyNone,
          shown |-> <<Element("error", RequestErrorPrefix \o outcome.exc.str)>>]
    ELSE IF ~is_success(outcome.status)
    THEN [ret |-> PyNone,
          shown |-> <<Element("error", ApiErrorPrefix \o outcome.text)>>]
    ELSE IF ~outcome.isJson
    THEN [ret |-> Raised("JSONDecodeError"), shown |-> <<>>]
    ELSE [ret |-> Extract(outcome.body), shown |-> <<>>]

\* lines 113-118: what the button handler displays for the value returned;
\* an exception leaves the script and Streamlit displays it
Display(ret) ==
    IF ret.t = "raise"
    THEN [ui |-> "exception", shown |-> <<Element("exception", ret.v)>>]
    ELSE IF Truthy(ret)
    THEN [ui |-> "success",
          shown |-> << Element("success", SuccessText),
                       Element("subheader", SubheaderText),
                       Element("code", ret.v) >>]
    ELSE [ui |-> "error", shown |-> <<Element("error", NoResultText)>>]

\* ------------------------------------------------------------- the session
VARIABLES
    secrets,            \* st.secrets
    environ,            \* os.environ
    dotenv,             \* the local .env file
    DEEPSEEK_API_KEY,   \* the module global of lines 9-14
    loaded,             \* the last run got past line 14: the widgets are on the page
    user_prompt,        \* the value of the text area
    button,             \* st.button returned True in the last run
    spinner,            \* the last run entered st.spinner (line 110)
    pc,                 \* "idle": no run in progress; "posting": blocked in httpx.post
    ui,                 \* what the page shows
    shown,              \* the elements displayed by the last run, in order
    result,             \* what refine_prompt_core returned in the last run
    request,            \* the request of the last run's POST: <<>> or <<request>>
    outcome,            \* the outcome of the last run's POST: <<>> or <<outcome>>
    posts,              \* POSTs sent in the session
    presses,            \* trigger presses in the session
    eligible,           \* presses made with a non-empty input and a present credential
    inflight            \* POSTs sent and not yet answered

vars == << secrets, environ, dotenv, DEEPSEEK_API_KEY, loaded, user_prompt, button,
           spinner, pc, ui, shown, result, request, outcome, posts, presses,
           eligible, inflight >>

\* line 38 written as: if DEEPSEEK_API_KEY is None
KeyMissing_IsNone(key) == key.t = "None"

\* line 38: if not DEEPSEEK_API_KEY
KeyMissing(key) == ~Truthy(key)

\* line 109 without its test
Submits_Always(prompt) == TRUE

\* line 109: if user_prompt
Submits(prompt) == prompt # <<>>

\* A run of the script in which the button is not pressed: lines 9-14, then
\* the widgets; the handler of line 108 is skipped.
RunWithoutPress(prompt) ==
    LET r == ResolveKey(secrets, environ, dotenv)
    IN  /\ environ' = r.environ
        /\ DEEPSEEK_API_KEY' = r.key
        /\ loaded' = ~r.raised
        /\ user_prompt' = prompt
        /\ button' = FALSE
        /\ spinner' = FALSE
        /\ pc' = "idle"
        /\ ui' = IF r.raised THEN "exception" ELSE "idle"
        /\ shown' = IF r.raised THEN <<Element("exception", <<"KeyError">>)>> ELSE <<>>
        /\ result' = NoCall
        /\ request' = <<>>
        /\ outcome' = <<>>
        /\ UNCHANGED << secrets, dotenv, posts, presses, eligible, inflight >>

\* The session opens: the first run of the script, the text area empty.
Init ==
    /\ secrets \in SecretStores
    /\ dotenv \in DotenvFiles
    /\ \E env \in Environs :
          LET r == ResolveKey(secrets, env, dotenv)
          IN  /\ environ = r.environ
              /\ DEEPSEEK_API_KEY = r.key
              /\ loaded = ~r.raised
              /\ ui = IF r.raised THEN "exception" ELSE "idle"
              /\ shown = IF r.raised THEN <<Element("exception", <<"KeyError">>)>> ELSE <<>>
    /\ user_prompt = <<>>
    /\ button = FALSE
    /\ spinner = FALSE
    /\ pc = "idle"
    /\ result = NoCall
    /\ request = <<>>
    /\ outcome = <<>>
    /\ posts = 0
    /\ presses = 0
    /\ eligible = 0
    /\ inflight = 0

\* The user reruns the page from the menu.
Rerun ==
    /\ pc = "idle"
    /\ RunWithoutPress(user_prompt)

\* The user changes the text of the text area (lines 102-106).
EditInput(u) ==
    /\ pc = "idle"
    /\ loaded
    /\ u # user_prompt
    /\ RunWithoutPress(u)

\* The user presses "Engineer Prompt": lines 9-14, the widgets, and the
\* handler of lines 108-120 up to the end of the script or to the POST of
\* line 78.
Press ==
    /\ pc = "idle"
    /\ loaded
    /\ presses < MaxPresses
    /\ LET r == ResolveKey(secrets, environ, dotenv)
           calls == ~r.raised /\ Submits(user_prompt)
           sends == calls /\ ~KeyMissing(r.key)
       IN  /\ environ' = r.environ
           /\ DEEPSEEK_API_KEY' = r.key
           /\ loaded' = ~r.raised
           /\ button' = ~r.raised
           /\ spinner' = calls
           /\ presses' = presses + 1
           /\ eligible' = IF user_prompt # <<>> /\ Truthy(r.key)
                          THEN eligible + 1 ELSE eligible
           /\ outcome' = <<>>
           /\ IF r.raised
              THEN /\ ui' = "exception"
                   /\ shown' = <<Element("exception", <<"KeyError">>)>>
                   /\ result' = NoCall
              ELSE IF ~calls
              THEN \* line 120
                   /\ ui' = "idle"
                   /\ shown' = <<Element("warning", WarningText)>>
                   /\ result' = NoCall
              ELSE IF ~sends
              THEN \* lines 39-40, then line 118
                   /\ ui' = Display(PyNone).ui
                   /\ shown' = <<Element("error", ConfigErrorText)>> \o Display(PyNone).shown
                   /\ result' = PyNone
              ELSE \* lines 42-83: blocked in httpx.post under the spinner
                   /\ ui' = "in_progress"
                   /\ shown' = <<>>
                   /\ result' = NoCall
           /\ pc' = IF sends THEN "posting" ELSE "idle"
           /\ request' = IF sends THEN <<Request(user_prompt, r.key)>> ELSE <<>>
           /\ posts' = IF sends THEN posts + 1 ELSE posts
           /\ inflight' = IF sends THEN inflight + 1 ELSE inflight
    /\ UNCHANGED << secrets, dotenv, user_prompt >>

\* httpx.post returns or raises: lines 84-96, then lines 113-118.
Respond(o) ==
    /\ pc = "posting"
    /\ LET a == AfterPost(o)
           d == Display(a.ret)
       IN  /\ result' = a.ret
           /\ shown' = a.shown \o d.shown
           /\ ui' = d.ui
    /\ outcome' = <<o>>
    /\ inflight' = inflight - 1
    /\ pc' = "idle"
    /\ UNCHANGED << secrets, environ, dotenv, DEEPSEEK_API_KEY, loaded, user_prompt,
                    button, spinner, request, posts, presses, eligible >>

Next ==
    \/ Rerun
    \/ \E u \in UserInputs : EditInput(u)
    \/ Press
    \/ \E o \in Outcomes : Respond(o)

Spec == Init /\ [][Next]_vars

\* ------------------------------------------------------------- vocabulary of the properties
\* the outcome of the last run's POST, once it has arrived
Answered == outcome # <<>>
Got == outcome[1]

\* a 2xx response whose body parsed
Parsed2xx == Answered /\ Got.exc = NoError /\ is_success(Got.status) /\ Got.isJson

\* some level of choices[0].message.content is missing from the body
PathMissing(b) ==
    \/ "choices" \notin DOMAIN b
    \/ b.choices = <<>>
    \/ "message" \notin DOMAIN b.choices[1]
    \/ "content" \notin DOMAIN b.choices[1].message

\* choices[0].message.content is present in the body and is a string
HasContentString(b) ==
    /\ ~PathMissing(b)
    /\ b.choices[1].message.content.t = "str"

ContentOf(b) == b.choices[1].message.content.v

Blank(c) == c \in {" ", "\n", "\t"}

\* r is s without its leading and trailing blanks, nothing else changed
IsTrimOf(r, s) ==
    \E i \in 1..(Len(s) + 1) : \E j \in 0..Len(s) :
        /\ i <= j + 1
        /\ \A k \in 1..(i - 1) : Blank(s[k])
        /\ \A k \in (j + 1)..Len(s) : Blank(s[k])
        /\ r = SubSeq(s, i, j)
        /\ r # <<>> => ~Blank(r[1]) /\ ~Blank(r[Len(r)])

\* the texts of the displayed elements of one kind, in order
RECURSIVE TextsOf(_, _)
TextsOf(kind, elems) ==
    IF elems = <<>> THEN <<>>
    ELSE (IF Head(elems).kind = kind THEN <<Head(elems).text>> ELSE <<>>)
         \o TextsOf(kind, Tail(elems))

CodeBlocks == TextsOf("code", shown)
Errors == TextsOf("error", shown)
Warnings == TextsOf("warning", shown)

\* text lies, on lines of its own, between an opening and a closing tag of c
Between(open, close, text, c) ==
    \E i \in 1..Len(c) : \E j \in 1..Len(c) :
        /\ i < j
        /\ c[i] = open
        /\ c[j] = close
        /\ SubSeq(c, i + 1, j - 1) = <<NL>> \o text \o <<NL>>

\* ------------------------------------------------------------- C1
\* C1 (as claimed): whenever a 2xx response's parsed body lacks some level of
\* choices[0].message.content, refine_prompt_core returns the empty string
\* without raising and the page shows the error display.
C1_ExtractionNeverFails ==
    (Parsed2xx /\ PathMissing(Got.body)) =>
        /\ result = PyStr(<<>>)
        /\ ui = "error"

\* ------------------------------------------------------------- C2
\* C2 (as claimed): a press with an empty or all-blank input sends no POST
\* and shows the warning.
C2_BlankInputNeverPosts ==
    (button /\ \A k \in 1..Len(user_prompt) : Blank(user_prompt[k])) =>
        /\ request = <<>>
        /\ pc = "idle"
        /\ Warnings = <<WarningText>>

\* ------------------------------------------------------------- C3
\* C3: when the credential is absent (None or ""), every call of
\* refine_prompt_core displays the configuration error, returns None and
\* sends no POST; the run ends, the page stays usable and the next press is
\* handled the same way (the property holds after every press).
C3_AbsentKeyShortCircuits ==
    (loaded /\ spinner /\ ~Truthy(DEEPSEEK_API_KEY)) =>
        /\ result = PyNone
        /\ Errors # <<>> /\ Errors[1] = ConfigErrorText
        /\ request = <<>>
        /\ outcome = <<>>
        /\ posts = 0
        /\ inflight = 0
        /\ pc = "idle"
        /\ ui = "error"
        /\ presses < MaxPresses => ENABLED Press

\* a second press with a non-empty input and the credential absent
C3_Witness ==
    /\ loaded /\ spinner /\ ~Truthy(DEEPSEEK_API_KEY)
    /\ presses = 2
    /\ user_prompt # <<>>

\* ------------------------------------------------------------- C4
\* a source yields a value for the credential
SecretYields == KEY \in DOMAIN secrets /\ secrets[KEY] # <<>>
EnvYields ==
    LET e == load_dotenv(environ, dotenv)
    IN  KEY \in DOMAIN e /\ e[KEY] # <<>>

\* C4 (as claimed): when neither the secret store nor the environment yields
\* a value, startup completes with the credential absent.
C4_StartupCompletesWithoutKey ==
    (~SecretYields /\ ~EnvYields) =>
        /\ loaded
        /\ ~Truthy(DEEPSEEK_API_KEY)
        /\ ui # "exception"

\* ------------------------------------------------------------- C5
\* C5: when the POST returns a non-2xx status, refine_prompt_core displays
\* an error that contains the response body text verbatim and returns None;
\* the page ends in the error display, and nothing of the response is
\* extracted or shown as a success.
C5_StatusErrorSurfaced ==
    (Answered /\ Got.exc = NoError /\ ~is_success(Got.status)) =>
        /\ result = PyNone
        /\ ui = "error"
        /\ Errors = <<ApiErrorPrefix \o Got.text, NoResultText>>
        /\ IsSubSeq(Got.text, Errors[1])
        /\ CodeBlocks = <<>>
        /\ TextsOf("success", shown) = <<>>
        /\ pc = "idle"

\* a 429 with a body of three characters has been answered
C5_Witness ==
    /\ Answered /\ Got.exc = NoError /\ Got.status = 429
    /\ Len(Got.text) = 3
    /\ ui = "error"

C7_PressEndsInSuccessOrError ==
    loaded =>
        /\ ui \in {"idle", "in_progress", "success", "error"}
        /\ (button /\ user_prompt # <<>>) =>
              /\ spinner
              /\ pc = "posting" => ui = "in_progress"
              /\ pc = "idle" =>
                    /\ ui \in {"success", "error"}
                    /\ ui = "success" <=> Truthy(result)
                    /\ ui = "error" <=> result \in {PyNone, PyStr(<<>>)}
        /\ (button /\ user_prompt = <<>>) =>
              /\ ui = "idle"
              /\ Warnings = <<WarningText>>

\* ------------------------------------------------------------- C8
\* C8 (as claimed): when the POST returns 2xx and choices[0].message.content
\* is a string s, the result returned and displayed in the output block is s
\* without its leading and trailing blanks.
C8_TrimmedResultDisplayed ==
    (Parsed2xx /\ HasContentString(Got.body)) =>
        /\ result.t = "str"
        /\ IsTrimOf(result.v, ContentOf(Got.body))
        /\ CodeBlocks = <<result.v>>

\* C8 (amended): the result returned is s without its leading and trailing
\* blanks; when that is non-empty it is what the output block displays, and
\* when it is empty no output block is displayed and the page shows the error.
C8_TrimmedResult ==
    (Parsed2xx /\ HasContentString(Got.body)) =>
        /\ result.t = "str"
        /\ IsTrimOf(result.v, ContentOf(Got.body))
        /\ IF result.v # <<>>
           THEN CodeBlocks = <<result.v>> /\ ui = "success"
           ELSE CodeBlocks = <<>> /\ ui = "error"

\* " a " came back and "a" is displayed
C8_Witness ==
    /\ Parsed2xx /\ HasContentString(Got.body)
    /\ ContentOf(Got.body) = <<" ", "a", " ">>
    /\ CodeBlocks = << <<"a">> >>

\* ------------------------------------------------------------- C9
\* C9: when the POST fails at the network level, refine_prompt_core displays
\* an error that carries the error's description and returns None; the page
\* ends in the error display, the run is over and the next press is accepted.
C9_TransportErrorSurfaced ==
    (Answered /\ Got.exc # NoError) =>
        /\ result = PyNone
        /\ ui = "error"
        /\ Errors # <<>>
        /\ Got.exc.str # <<>> /\ IsSubSeq(RequestErrorPrefix \o Got.exc.str, Errors[1])
        /\ CodeBlocks = <<>>
        /\ pc = "idle"
        /\ loaded
        /\ inflight = 0
        /\ presses < MaxPresses => ENABLED Press

\* a read timeout has been reported
C9_Witness ==
    /\ Answered /\ Got.exc.type = "ReadTimeout"
    /\ ui = "error"

\* ------------------------------------------------------------- C10
SentContent(r) == r[1].json.messages[1].content

\* C10: the request's only message has the user role and its content holds
\* the user's text, unchanged, between <vague_prompt> and </vague_prompt> and
\* the whole knowledge base between <knowledge_base> and </knowledge_base>;
\* two consecutive POSTs for the same text carry the same content.
C10_ComposedPrompt ==
    /\ [](request # <<>> =>
            /\ user_prompt # <<>>
            /\ Len(request[1].json.messages) = 1
            /\ request[1].json.messages[1].role = "user"
            /\ Between("<vague_prompt>", "</vague_prompt>", user_prompt,
                       SentContent(request))
            /\ Between("<knowledge_base>", "</knowledge_base>", KNOWLEDGE_BASE,
                       SentContent(request)))
    /\ [][(request # <<>> /\ request' # <<>> /\ user_prompt' = user_prompt) =>
             SentContent(request') = SentContent(request)]_vars

\* a text that holds a blank and the closing tag has been sent
C10_Witness ==
    /\ request # <<>>
    /\ user_prompt = <<" ", "</vague_prompt>">>
    /\ presses = 2

====
